---- MODULE Spec2Model ----
(***************************************************************************)
(* ProductionSteemBridge (src/unnamed/part_000): the polling, caching and  *)
(* broadcasting WebSocket bridge, modelled as a discrete-event state       *)
(* machine.  One action is one macrotask of the Node.js event loop: a      *)
(* timer callback, a socket event, or the arrival of an upstream response  *)
(* together with every promise continuation it wakes.  Times are in        *)
(* milliseconds.                                                           *)
(***************************************************************************)
EXTENDS Integers, Sequences, FiniteSets, TLC

(* ------------------------------ bounds --------------------------------- *)
\* Date.now() when the constructor runs (any value far above the delays).
Epoch == 100000
\* How far past Epoch the clock is followed.
Horizon == 2000
\* The same with one connection and one stream.
HorizonTick == 6000
\* The same while the upstream is down.
HorizonDown == 13000
\* The same for the single-stream scenario.
HorizonScenario == 10000
HorizonIdle == 16000
HorizonLive == 5000
HorizonHead == 14000
HorizonSlow == 24000
HorizonTimers == 6000
HorizonClient == 40000
MaxSockets == 8
MaxListeners == 3
\* Longest request queue that is followed while the upstream is down.
MaxQueueDown == 1
\* Longest request queue that is followed.
MaxQueue == 6
\* Socket events (connections, closes, errors, messages) that are followed.
MaxEvents == 5

\* Connections that may be open at the same time.
Clients == {1, 2}
\* head_block_number values the upstream may answer with.
Payloads == {7, 8}

(* ------------------------- program constants --------------------------- *)
requestDelay == 1000
maxRequestsPerMinute == 60
pollDelay == 1000
pauseDelay == 200
callTimeout == 15000
resetPeriod == 60000
testDelay == 3000
retryDelay == 30000
autoFetchPeriod == 10000
\* SteemLiveClient: this.maxReconnectAttempts and the step of its back-off.
maxReconnectAttempts == 5
reconnectStep == 2000
minTimerDelay == 1

DGP == "dynamic_global_properties"
HDR == "block_header"
BLK == "block"
GetDGP == "condenser_api.get_dynamic_global_properties"

\* this.apiMethods as the constructor builds it
apiMethods ==
    [s \in {DGP, HDR, BLK} |->
        CASE s = DGP -> [method |-> GetDGP, interval |-> 8000]
          [] s = HDR -> [method |-> "condenser_api.get_block_header", interval |-> 6000]
          [] s = BLK -> [method |-> "condenser_api.get_block", interval |-> 12000]]

Catalogue == DOMAIN apiMethods

\* Property names every plain object inherits from Object.prototype: for
\* these obj[name] is defined although name is no key of the object.
ObjectPrototype == {"constructor"}

\* Stream names a client message may carry.
StreamNames == {DGP, HDR, "foo"}

\* data: null
NoData == 0

\* this.cache as the constructor builds it
InitialCache ==
    [s \in {DGP, HDR, BLK} |->
        CASE s = DGP -> [data |-> NoData, timestamp |-> 0, ttl |-> 5000]
          [] s = HDR -> [data |-> NoData, timestamp |-> 0, ttl |-> 3000]
          [] s = BLK -> [data |-> NoData, timestamp |-> 0, ttl |-> 5000]]

VARIABLES
    now,              \* Date.now()
    clients,          \* this.clients
    readyState,       \* ws.readyState of each connection
    joined,           \* history: streams each connection asked for and has not left
    currentBlock,     \* this.currentBlock
    activeStreams,    \* this.activeStreams (Map: name -> entry)
    timers,           \* running setInterval timers of streams
    requestQueue,     \* this.requestQueue
    isProcessingQueue,\* this.isProcessingQueue
    drain,            \* where the loop of processRequestQueue is suspended
    polls,            \* due times of the pending setTimeout(processRequestQueue)
    lastRequestTime,  \* this.lastRequestTime
    requestCount,     \* this.requestCount
    cache,            \* this.cache
    methods,          \* this.apiMethods
    test,             \* where testSteemConnection is suspended
    autoTimers,       \* next firing times of startAutomaticDataFetch's setInterval timers
    resetAt,          \* next firing time of the request counter's reset timer
    dispatched,       \* history: makeAPICall invocations so far
    lastDispatch,     \* history: time of the latest makeAPICall invocation
    events,           \* history: socket events handled so far
    event,            \* history: the handler the last step ran
    outbox,           \* messages sent by the last step
    \* SteemLiveClient (src/steem-client.js)
    ws,               \* this.ws: "null", or the readyState of that WebSocket
    orphans,          \* how many earlier WebSockets are still in each readyState
    created,          \* history: WebSockets constructed so far
    isConnected,      \* this.isConnected
    reconnectAttempts,\* this.reconnectAttempts
    reconnectTimers,  \* due times of the pending setTimeout of attemptReconnect
    eventListeners,   \* this.eventListeners[e] for one event e
    invoked,          \* history: the callbacks the last emit invoked, in order
    retries,          \* history: connects made by reconnect timers since the last open
    userDisconnected  \* history: disconnect() was called and connect() not since

vars == <<now, clients, readyState, joined, currentBlock, activeStreams, timers,
          requestQueue, isProcessingQueue, drain, lastRequestTime, requestCount,
          cache, methods, test, autoTimers, resetAt, dispatched, events, event,
          outbox, polls, lastDispatch, ws, orphans, created, isConnected,
          reconnectAttempts, reconnectTimers, eventListeners, invoked, retries,
          userDisconnected>>

\* The state of the client library, which the bridge's steps leave alone.
clientVars == <<ws, orphans, created, isConnected, reconnectAttempts, reconnectTimers,
                eventListeners, invoked, retries, userDisconnected>>

\* The state of the bridge apart from the clock, which the client's steps
\* leave alone.
bridgeVars == <<clients, readyState, joined, currentBlock, activeStreams, timers,
                requestQueue, isProcessingQueue, drain, lastRequestTime,
                requestCount, cache, methods, test, autoTimers, resetAt,
                dispatched, events, event, outbox, polls, lastDispatch>>

(* ------------------------------ helpers -------------------------------- *)
Min(S) == CHOOSE x \in S : \A y \in S : x <= y

\* A message on a connection.  Fields a message type does not carry are "" / 0.
Msg(to, type, stream, data, cached, n, error) ==
    [to |-> to, type |-> type, stream |-> stream, data |-> data,
     cached |-> cached, n |-> n, error |-> error]

\* this.apiMethods[name] is truthy: an own key or an inherited property.
HasMethod(name) == name \in DOMAIN methods \/ name \in ObjectPrototype

\* { ...this.apiMethods[name] }: spreading an inherited function or object
\* yields {}, whose method and interval are undefined ("undefined" / 0).
Config(name) ==
    IF name \in DOMAIN methods THEN methods[name]
    ELSE [method |-> "undefined", interval |-> 0]

\* setInterval(fn, delay): a delay that is not a number >= 1 becomes 1 ms.
TimerDelay(interval) == IF interval >= minTimerDelay THEN interval ELSE minTimerDelay

\* this.cache[name]: an inherited property has no data, timestamp or ttl.
CacheEntry(name) ==
    IF name \in DOMAIN cache THEN cache[name]
    ELSE [data |-> NoData, timestamp |-> 0, ttl |-> 0]

\* cached.data && (now - cached.timestamp) < cached.ttl
IsFresh(name, t) ==
    /\ CacheEntry(name).data # NoData
    /\ t - CacheEntry(name).timestamp < CacheEntry(name).ttl

\* The handler a step ran: for which connection and stream, and the streams
\* that connection had joined before it.
Event(op, client, stream, had) ==
    [op |-> op, client |-> client, stream |-> stream, had |-> had]

Owner(kind, stream, t) == [kind |-> kind, stream |-> stream, now |-> t]
Request(method, params, owner) == [method |-> method, params |-> params, owner |-> owner]
NoReq == Request("", <<>>, Owner("none", "", 0))

\* Variant: a broadcast that stops at the first connection that is not open
\* (connections are visited in the order they were added).
broadcastAborts(type, stream, data, cached, n, error) ==
    {Msg(c, type, stream, data, cached, n, error) :
        c \in {d \in clients : \A e \in clients : e <= d => readyState[e] = "OPEN"}}

\* broadcast(data): to every connection of this.clients that is OPEN.
broadcast(type, stream, data, cached, n, error) ==
    IF clients = {} THEN {}
    ELSE {Msg(c, type, stream, data, cached, n, error) :
              c \in {d \in clients : readyState[d] = "OPEN"}}

\* Variant: the cycle without its cache check (every cycle asks the upstream).
fetchUncached(name) ==
    IF name \in {HDR, BLK} /\ currentBlock = 0
    THEN [push |-> <<Request(GetDGP, <<>>, Owner("seed", name, now))>>, out |-> {}]
    ELSE [push |-> <<Request(Config(name).method,
                             IF name = DGP THEN <<>> ELSE <<currentBlock>>,
                             Owner("fetch", name, now))>>,
          out |-> {}]

\* Variant: a cache hit that reports the current head instead of the value
\* in the cache.
fetchServesHead(name) ==
    IF IsFresh(name, now)
    THEN [push |-> <<>>,
          out  |-> broadcast("live_data", name, currentBlock, TRUE,
                             now - CacheEntry(name).timestamp, "")]
    ELSE fetchUncached(name)

\* fetchAndBroadcastOptimized(streamName, config) up to its first await:
\* the messages it sends and the requests queueAPICall pushes.
fetchAndBroadcastOptimized(name) ==
    IF IsFresh(name, now)
    THEN [push |-> <<>>,
          out  |-> broadcast("live_data", name, CacheEntry(name).data, TRUE,
                             now - CacheEntry(name).timestamp, "")]
    ELSE IF name \in {HDR, BLK}
    THEN IF currentBlock = 0
         THEN [push |-> <<Request(GetDGP, <<>>, Owner("seed", name, now))>>, out |-> {}]
         ELSE [push |-> <<Request(Config(name).method, <<currentBlock>>,
                                  Owner("fetch", name, now))>>, out |-> {}]
    ELSE [push |-> <<Request(Config(name).method, <<>>, Owner("fetch", name, now))>>,
          out |-> {}]

\* The smallest timer handle not in use.
FreshId == Min({i \in 1..(Cardinality(timers) + 1) : \A t \in timers : t.id # i})

\* The loop body of processRequestQueue from shift() to its first await.
Take(req) ==
    IF now - lastRequestTime < requestDelay
    THEN [pc |-> "delay", at |-> now + (requestDelay - (now - lastRequestTime)), req |-> req]
    ELSE [pc |-> "call", at |-> now + callTimeout, req |-> req]

Calls(d) == IF d.pc = "call" THEN 1 ELSE 0

\* No loop of processRequestQueue is running.
NoLoop == [pc |-> "idle", at |-> 0, req |-> NoReq]

(* ------------------------------- Init ---------------------------------- *)
\* The readyState values of a WebSocket whose close event is still to come.
Live == {"CONNECTING", "OPEN", "CLOSING"}

\* new SteemLiveClient(): no socket, no listener, no attempt.
ClientInit ==
    /\ ws = "null"
    /\ orphans = [st \in Live |-> 0]
    /\ created = 0
    /\ isConnected = FALSE
    /\ reconnectAttempts = 0
    /\ reconnectTimers = <<>>
    /\ eventListeners = <<>>
    /\ invoked = <<>>
    /\ retries = 0
    /\ userDisconnected = FALSE

Init ==
    /\ now = Epoch
    /\ clients = {}
    /\ readyState = [c \in Clients |-> "CLOSED"]
    /\ joined = [c \in Clients |-> {}]
    /\ currentBlock = 0
    /\ activeStreams = <<>>
    /\ timers = {}
    /\ requestQueue = <<>>
    /\ isProcessingQueue = FALSE
    /\ drain = NoLoop
    /\ polls = {Epoch + pollDelay}
    /\ lastRequestTime = 0
    /\ requestCount = 0
    /\ cache = InitialCache
    /\ methods = apiMethods
    /\ test = [pc |-> "timer", at |-> Epoch + testDelay]
    /\ autoTimers = <<>>
    /\ resetAt = Epoch + resetPeriod
    /\ dispatched = 0
    /\ lastDispatch = 0
    /\ events = 0
    /\ event = Event("init", 0, "", {})
    /\ outbox = {}
    /\ ClientInit

(* --------------------------- client events ----------------------------- *)
\* stopAllStreams(): every entry's timer is cleared, the map is emptied.
stopAllStreams ==
    /\ timers' = {t \in timers :
                     \A s \in DOMAIN activeStreams : activeStreams[s].intervalId # t.id}
    /\ activeStreams' = <<>>

\* Variant: startStream that arms the timer and leaves the first fetch to it.
startStreamLazy(name, c) ==
    IF ~HasMethod(name)
    THEN /\ outbox' = {Msg(c, "error", "", NoData, FALSE, 0, "Unknown stream")}
         /\ UNCHANGED <<joined, activeStreams, timers, requestQueue>>
    ELSE /\ joined' = [joined EXCEPT ![c] = @ \cup {name}]
         /\ outbox' = {Msg(c, "stream_started", name, NoData, FALSE,
                           Config(name).interval, "")}
         /\ IF name \notin DOMAIN activeStreams
            THEN /\ timers' = timers \cup
                       {[id |-> FreshId, stream |-> name,
                         at |-> now + TimerDelay(Config(name).interval)]}
                 /\ activeStreams' = (name :> [intervalId |-> FreshId,
                                               startTime |-> now,
                                               requestCount |-> 0])
                                     @@ activeStreams
                 /\ UNCHANGED requestQueue
            ELSE UNCHANGED <<activeStreams, timers, requestQueue>>

\* Variant: startStream without the activeStreams.has() test: every
\* start_stream arms a timer and starts a cycle.
startStreamAgain(name, c) ==
    IF ~HasMethod(name)
    THEN /\ outbox' = {Msg(c, "error", "", NoData, FALSE, 0, "Unknown stream")}
         /\ UNCHANGED <<joined, activeStreams, timers, requestQueue>>
    ELSE LET f == fetchAndBroadcastOptimized(name)
         IN  /\ joined' = [joined EXCEPT ![c] = @ \cup {name}]
             /\ Len(requestQueue) + Len(f.push) <= MaxQueue
             /\ timers' = timers \cup
                   {[id |-> FreshId, stream |-> name,
                     at |-> now + TimerDelay(Config(name).interval)]}
             /\ activeStreams' =
                   [s \in DOMAIN activeStreams \cup {name} |->
                       IF s = name
                       THEN [intervalId |-> FreshId, startTime |-> now,
                             requestCount |-> 0]
                       ELSE activeStreams[s]]
             /\ requestQueue' = requestQueue \o f.push
             /\ outbox' = f.out \cup {Msg(c, "stream_started", name, NoData, FALSE,
                                          Config(name).interval, "")}

\* Variant: a close handler that stops every stream whoever is left.
CloseStopsAll(c) ==
    /\ event' = Event("close", c, "", joined[c])
    /\ UNCHANGED <<methods, polls, lastDispatch, clientVars>>
    /\ readyState[c] \in {"OPEN", "CLOSING"}
    /\ clients' = clients \ {c}
    /\ readyState' = [readyState EXCEPT ![c] = "CLOSED"]
    /\ joined' = [joined EXCEPT ![c] = {}]
    /\ stopAllStreams
    /\ outbox' = {}
    /\ UNCHANGED <<now, currentBlock, requestQueue, isProcessingQueue, drain,
                   lastRequestTime, requestCount, cache, test, autoTimers, resetAt,
                   dispatched>>

\* wss.on('connection')
Connect(c) ==
    /\ event' = Event("connect", c, "", {})
    /\ UNCHANGED <<methods, polls, lastDispatch, clientVars>>
    /\ readyState[c] = "CLOSED"
    /\ \A d \in Clients : readyState[d] = "CLOSED" => c <= d
    /\ clients' = clients \cup {c}
    /\ readyState' = [readyState EXCEPT ![c] = "OPEN"]
    /\ outbox' = {Msg(c, "welcome", "", NoData, FALSE, currentBlock, "")}
    /\ UNCHANGED <<now, joined, currentBlock, activeStreams, timers, requestQueue,
                   isProcessingQueue, drain, lastRequestTime, requestCount, cache,
                   test, autoTimers, resetAt, dispatched>>

\* The closing handshake starts: readyState is CLOSING until 'close' is emitted.
BeginClose(c) ==
    /\ event' = Event("begin_close", c, "", joined[c])
    /\ UNCHANGED <<methods, polls, lastDispatch, clientVars>>
    /\ readyState[c] = "OPEN"
    /\ readyState' = [readyState EXCEPT ![c] = "CLOSING"]
    /\ outbox' = {}
    /\ UNCHANGED <<now, clients, joined, currentBlock, activeStreams, timers,
                   requestQueue, isProcessingQueue, drain, lastRequestTime,
                   requestCount, cache, test, autoTimers, resetAt, dispatched>>

\* ws.on('error'): the socket is already CLOSING when the event is emitted.
Error(c) ==
    /\ event' = Event("error", c, "", joined[c])
    /\ UNCHANGED <<methods, polls, lastDispatch, clientVars>>
    /\ c \in clients
    /\ readyState[c] \in {"OPEN", "CLOSING"}
    /\ clients' = clients \ {c}
    /\ readyState' = [readyState EXCEPT ![c] = "CLOSING"]
    /\ joined' = [joined EXCEPT ![c] = {}]
    /\ outbox' = {}
    /\ UNCHANGED <<now, currentBlock, activeStreams, timers, requestQueue,
                   isProcessingQueue, drain, lastRequestTime, requestCount, cache,
                   test, autoTimers, resetAt, dispatched>>

\* ws.on('close')
Close(c) ==
    /\ event' = Event("close", c, "", joined[c])
    /\ UNCHANGED <<methods, polls, lastDispatch, clientVars>>
    /\ readyState[c] \in {"OPEN", "CLOSING"}
    /\ clients' = clients \ {c}
    /\ readyState' = [readyState EXCEPT ![c] = "CLOSED"]
    /\ joined' = [joined EXCEPT ![c] = {}]
    /\ IF clients' = {}
       THEN stopAllStreams
       ELSE UNCHANGED <<activeStreams, timers>>
    /\ outbox' = {}
    /\ UNCHANGED <<now, currentBlock, requestQueue, isProcessingQueue, drain,
                   lastRequestTime, requestCount, cache, test, autoTimers, resetAt,
                   dispatched>>

\* startStream(streamName, customParams, requestingClient)
startStream(name, c) ==
    IF ~HasMethod(name)
    THEN /\ outbox' = {Msg(c, "error", "", NoData, FALSE, 0, "Unknown stream")}
         /\ UNCHANGED <<joined, activeStreams, timers, requestQueue>>
    ELSE LET ack == Msg(c, "stream_started", name, NoData, FALSE,
                        Config(name).interval, "")
         IN  /\ joined' = [joined EXCEPT ![c] = @ \cup {name}]
             /\ IF name \notin DOMAIN activeStreams
                THEN LET id == FreshId
                         f  == fetchAndBroadcastOptimized(name)
                     IN  /\ Len(requestQueue) + Len(f.push) <= MaxQueue
                         /\ timers' = timers \cup
                               {[id |-> id, stream |-> name,
                                 at |-> now + TimerDelay(Config(name).interval)]}
                         /\ activeStreams' = (name :> [intervalId |-> id,
                                                       startTime |-> now,
                                                       requestCount |-> 0])
                                             @@ activeStreams
                         /\ requestQueue' = requestQueue \o f.push
                         /\ outbox' = f.out \cup {ack}
                ELSE /\ outbox' = {ack}
                     /\ UNCHANGED <<activeStreams, timers, requestQueue>>

\* Variant: stopStream that answers a stop of an inactive stream with an error.
stopStreamComplains(name, c) ==
    /\ joined' = [joined EXCEPT ![c] = @ \ {name}]
    /\ IF name \in DOMAIN activeStreams
       THEN /\ timers' = {t \in timers : t.id # activeStreams[name].intervalId}
            /\ activeStreams' = [s \in DOMAIN activeStreams \ {name} |-> activeStreams[s]]
            /\ outbox' = {Msg(c, "stream_stopped", name, NoData, FALSE,
                              activeStreams[name].requestCount, "")}
       ELSE /\ outbox' = {Msg(c, "error", name, NoData, FALSE, 0, "Stream not active")}
            /\ UNCHANGED <<activeStreams, timers>>

\* Variant: stopStream that forgets the entry and leaves its timer running.
stopStreamLeaksTimer(name, c) ==
    /\ joined' = [joined EXCEPT ![c] = @ \ {name}]
    /\ IF name \in DOMAIN activeStreams
       THEN /\ UNCHANGED timers
            /\ activeStreams' = [s \in DOMAIN activeStreams \ {name} |-> activeStreams[s]]
            /\ outbox' = {Msg(c, "stream_stopped", name, NoData, FALSE,
                              activeStreams[name].requestCount, "")}
       ELSE /\ outbox' = {}
            /\ UNCHANGED <<activeStreams, timers>>

\* stopStream(streamName, requestingClient)
stopStream(name, c) ==
    /\ joined' = [joined EXCEPT ![c] = @ \ {name}]
    /\ IF name \in DOMAIN activeStreams
       THEN /\ timers' = {t \in timers : t.id # activeStreams[name].intervalId}
            /\ activeStreams' = [s \in DOMAIN activeStreams \ {name} |-> activeStreams[s]]
            /\ outbox' = {Msg(c, "stream_stopped", name, NoData, FALSE,
                              activeStreams[name].requestCount, "")}
       ELSE /\ outbox' = {}
            /\ UNCHANGED <<activeStreams, timers>>

\* ws.on('message') with {type: 'start_stream', stream: name}
StartStream(c, name) ==
    /\ event' = Event("start_stream", c, name, joined[c])
    /\ UNCHANGED <<methods, polls, lastDispatch, clientVars>>
    /\ c \in clients
    /\ readyState[c] = "OPEN"
    /\ startStream(name, c)
    /\ UNCHANGED <<now, clients, readyState, currentBlock, isProcessingQueue, drain,
                   lastRequestTime, requestCount, cache, test, autoTimers, resetAt,
                   dispatched>>

\* Variant: a stop_stream that also empties the stream's cache entry.
StopStreamEvicts(c, name) ==
    /\ event' = Event("stop_stream", c, name, joined[c])
    /\ UNCHANGED <<methods, polls, lastDispatch, clientVars>>
    /\ c \in clients
    /\ readyState[c] = "OPEN"
    /\ stopStream(name, c)
    /\ cache' = [s \in DOMAIN cache |->
                    IF s = name THEN [cache[s] EXCEPT !.data = NoData, !.timestamp = 0]
                    ELSE cache[s]]
    /\ UNCHANGED <<now, clients, readyState, currentBlock, requestQueue,
                   isProcessingQueue, drain, lastRequestTime, requestCount,
                   test, autoTimers, resetAt, dispatched>>

\* ws.on('message') with {type: 'stop_stream', stream: name}
StopStream(c, name) ==
    /\ event' = Event("stop_stream", c, name, joined[c])
    /\ UNCHANGED <<methods, polls, lastDispatch, clientVars>>
    /\ c \in clients
    /\ readyState[c] = "OPEN"
    /\ stopStream(name, c)
    /\ UNCHANGED <<now, clients, readyState, currentBlock, requestQueue,
                   isProcessingQueue, drain, lastRequestTime, requestCount, cache,
                   test, autoTimers, resetAt, dispatched>>

\* Variant: a malformed message also ends the connection that sent it.
BadMessageCloses(c, what) ==
    /\ event' = Event(what, c, "", joined[c])
    /\ UNCHANGED <<methods, polls, lastDispatch, clientVars>>
    /\ c \in clients
    /\ readyState[c] = "OPEN"
    /\ outbox' = {Msg(c, "error", "", NoData, FALSE, 0, "Invalid JSON")}
    /\ clients' = clients \ {c}
    /\ readyState' = [readyState EXCEPT ![c] = "CLOSING"]
    /\ UNCHANGED <<now, joined, currentBlock, activeStreams, timers, requestQueue,
                   isProcessingQueue, drain, lastRequestTime, requestCount, cache,
                   test, autoTimers, resetAt, dispatched>>

\* What is wrong with an inbound message: its text is no JSON, or its type
\* is none of the four the switch knows.
Malformed == {"invalid_json", "unknown_type"}

\* ws.on('message') with a malformed message: the catch block, or the
\* default case of handleClientMessage.
BadMessage(c, what) ==
    /\ event' = Event(what, c, "", joined[c])
    /\ UNCHANGED <<methods, polls, lastDispatch, clientVars>>
    /\ c \in clients
    /\ readyState[c] = "OPEN"
    /\ outbox' = {Msg(c, "error", "", NoData, FALSE, 0,
                      IF what = "invalid_json" THEN "Invalid JSON"
                      ELSE "Unknown message type")}
    /\ UNCHANGED <<now, clients, readyState, joined, currentBlock, activeStreams,
                   timers, requestQueue, isProcessingQueue, drain, lastRequestTime,
                   requestCount, cache, test, autoTimers, resetAt, dispatched>>

(* ----------------------------- stream timers --------------------------- *)
\* The setInterval callback of startStream.
Tick(t) ==
    /\ event' = Event("tick", 0, t.stream, {})
    /\ UNCHANGED <<methods, polls, lastDispatch, clientVars>>
    /\ t \in timers
    /\ t.at <= now
    /\ LET f == fetchAndBroadcastOptimized(t.stream)
       IN  /\ Len(requestQueue) + Len(f.push) <= MaxQueue
           /\ requestQueue' = requestQueue \o f.push
           /\ outbox' = f.out
    /\ timers' = (timers \ {t}) \cup
                    {[t EXCEPT !.at = t.at + TimerDelay(Config(t.stream).interval)]}
    /\ UNCHANGED <<now, clients, readyState, joined, currentBlock, activeStreams,
                   isProcessingQueue, drain, lastRequestTime, requestCount, cache,
                   test, autoTimers, resetAt, dispatched>>

(* ------------------------- the request queue --------------------------- *)
\* Variant: a poll that starts the loop with the newest request of the queue.
PollNewestFirst(p) ==
    /\ event' = Event("poll", 0, "", {})
    /\ UNCHANGED <<methods, clientVars>>
    /\ p \in polls
    /\ p <= now
    /\ IF isProcessingQueue \/ requestQueue = <<>>
       THEN /\ polls' = (polls \ {p}) \cup {now + pollDelay}
            /\ UNCHANGED <<requestQueue, isProcessingQueue, drain, dispatched,
                           lastDispatch>>
       ELSE /\ polls' = polls \ {p}
            /\ isProcessingQueue' = TRUE
            /\ requestQueue' = SubSeq(requestQueue, 1, Len(requestQueue) - 1)
            /\ drain' = Take(requestQueue[Len(requestQueue)])
            /\ dispatched' = dispatched + Calls(drain')
            /\ lastDispatch' = IF drain'.pc = "call" THEN now ELSE lastDispatch
    /\ outbox' = {}
    /\ UNCHANGED <<now, clients, readyState, joined, currentBlock, activeStreams,
                   timers, lastRequestTime, requestCount, cache, test, autoTimers,
                   resetAt>>

\* Variant: a poll that starts the loop and arms the next timer as well.
PollKeepsTimer(p) ==
    /\ event' = Event("poll", 0, "", {})
    /\ UNCHANGED <<methods, clientVars>>
    /\ p \in polls
    /\ p <= now
    /\ polls' = (polls \ {p}) \cup {now + pollDelay}
    /\ IF isProcessingQueue \/ requestQueue = <<>>
       THEN UNCHANGED <<requestQueue, isProcessingQueue, drain, dispatched,
                        lastDispatch>>
       ELSE /\ isProcessingQueue' = TRUE
            /\ requestQueue' = Tail(requestQueue)
            /\ drain' = Take(Head(requestQueue))
            /\ dispatched' = dispatched + Calls(drain')
            /\ lastDispatch' = IF drain'.pc = "call" THEN now ELSE lastDispatch
    /\ outbox' = {}
    /\ UNCHANGED <<now, clients, readyState, joined, currentBlock, activeStreams,
                   timers, lastRequestTime, requestCount, cache, test, autoTimers,
                   resetAt>>

\* processRequestQueue() called by one of its setTimeout timers: it arms the
\* next timer and returns, or starts the loop.
Poll(p) ==
    /\ event' = Event("poll", 0, "", {})
    /\ UNCHANGED <<methods, clientVars>>
    /\ p \in polls
    /\ p <= now
    /\ IF isProcessingQueue \/ requestQueue = <<>>
       THEN /\ polls' = (polls \ {p}) \cup {now + pollDelay}
            /\ UNCHANGED <<requestQueue, isProcessingQueue, drain, dispatched,
                           lastDispatch>>
       ELSE /\ polls' = polls \ {p}
            /\ isProcessingQueue' = TRUE
            /\ requestQueue' = Tail(requestQueue)
            /\ drain' = Take(Head(requestQueue))
            /\ dispatched' = dispatched + Calls(drain')
            /\ lastDispatch' = IF drain'.pc = "call" THEN now ELSE lastDispatch
    /\ outbox' = {}
    /\ UNCHANGED <<now, clients, readyState, joined, currentBlock, activeStreams,
                   timers, lastRequestTime, requestCount, cache, test, autoTimers,
                   resetAt>>

\* The rate-limiting sleep ends: makeAPICall is invoked.
DelayDone ==
    /\ event' = Event("delay_done", 0, "", {})
    /\ UNCHANGED <<methods, polls, clientVars>>
    /\ drain.pc = "delay"
    /\ drain.at <= now
    /\ drain' = [pc |-> "call", at |-> now + callTimeout, req |-> drain.req]
    /\ dispatched' = dispatched + 1
    /\ lastDispatch' = now
    /\ outbox' = {}
    /\ UNCHANGED <<now, clients, readyState, joined, currentBlock, activeStreams,
                   timers, requestQueue, isProcessingQueue, lastRequestTime,
                   requestCount, cache, test, autoTimers, resetAt>>

\* Variant: a loop that ends without arming the next timer.
PauseDoneNoTimer ==
    /\ event' = Event("pause_done", 0, "", {})
    /\ UNCHANGED <<methods, polls, clientVars>>
    /\ drain.pc = "pause"
    /\ drain.at <= now
    /\ IF requestQueue # <<>>
       THEN /\ requestQueue' = Tail(requestQueue)
            /\ drain' = Take(Head(requestQueue))
            /\ dispatched' = dispatched + Calls(drain')
            /\ lastDispatch' = IF drain'.pc = "call" THEN now ELSE lastDispatch
            /\ UNCHANGED isProcessingQueue
       ELSE /\ isProcessingQueue' = FALSE
            /\ drain' = NoLoop
            /\ UNCHANGED <<requestQueue, dispatched, lastDispatch>>
    /\ outbox' = {}
    /\ UNCHANGED <<now, clients, readyState, joined, currentBlock, activeStreams,
                   timers, lastRequestTime, requestCount, cache, test, autoTimers,
                   resetAt>>

\* The 200 ms sleep after a call ends: the while condition is tested again;
\* when the queue is empty the loop ends and arms the next timer.
PauseDone ==
    /\ event' = Event("pause_done", 0, "", {})
    /\ UNCHANGED <<methods, clientVars>>
    /\ drain.pc = "pause"
    /\ drain.at <= now
    /\ IF requestQueue # <<>>
       THEN /\ requestQueue' = Tail(requestQueue)
            /\ drain' = Take(Head(requestQueue))
            /\ dispatched' = dispatched + Calls(drain')
            /\ lastDispatch' = IF drain'.pc = "call" THEN now ELSE lastDispatch
            /\ UNCHANGED <<isProcessingQueue, polls>>
       ELSE /\ isProcessingQueue' = FALSE
            /\ drain' = NoLoop
            /\ polls' = polls \cup {now + pollDelay}
            /\ UNCHANGED <<requestQueue, dispatched, lastDispatch>>
    /\ outbox' = {}
    /\ UNCHANGED <<now, clients, readyState, joined, currentBlock, activeStreams,
                   timers, lastRequestTime, requestCount, cache, test, autoTimers,
                   resetAt>>

\* What makeAPICall's promise settles with.
Result(v) == [kind |-> "result", data |-> v, error |-> ""]
Empty == [kind |-> "empty", data |-> NoData, error |-> ""]
Rejected(e) == [kind |-> "reject", data |-> NoData, error |-> e]
Responses == {Result(v) : v \in Payloads} \cup {Empty}
                 \cup {Rejected("API Error"), Rejected("socket hang up")}

\* Variant: a continuation that gives the stream up when its fetch fails.
FetchResumeGivesUp(owner, resp) ==
    LET name == owner.stream IN
    IF resp.kind = "result" /\ name \in DOMAIN methods
    THEN /\ currentBlock' = IF name = DGP THEN resp.data ELSE currentBlock
         /\ cache' = [cache EXCEPT ![name] = [data |-> resp.data,
                                              timestamp |-> owner.now,
                                              ttl |-> cache[name].ttl]]
         /\ activeStreams' =
               IF name \in DOMAIN activeStreams
               THEN [activeStreams EXCEPT ![name].requestCount = @ + 1]
               ELSE activeStreams
         /\ outbox' = broadcast("live_data", name, resp.data, FALSE, 0, "")
         /\ UNCHANGED requestQueue
    ELSE /\ outbox' = IF resp.kind = "reject"
                      THEN broadcast("fetch_error", name, NoData, FALSE, 0, resp.error)
                      ELSE {}
         /\ activeStreams' = [s \in DOMAIN activeStreams \ {name} |-> activeStreams[s]]
         /\ UNCHANGED <<currentBlock, cache, requestQueue>>

\* Variant: a continuation that drops the result of a stream that was
\* stopped while its call was under way.
FetchResumeIfActive(owner, resp) ==
    LET name == owner.stream IN
    IF resp.kind = "result" /\ name \in DOMAIN methods /\ name \in DOMAIN activeStreams
    THEN /\ currentBlock' = IF name = DGP THEN resp.data ELSE currentBlock
         /\ cache' = [cache EXCEPT ![name] = [data |-> resp.data,
                                              timestamp |-> owner.now,
                                              ttl |-> cache[name].ttl]]
         /\ activeStreams' = [activeStreams EXCEPT ![name].requestCount = @ + 1]
         /\ outbox' = broadcast("live_data", name, resp.data, FALSE, 0, "")
         /\ UNCHANGED requestQueue
    ELSE /\ outbox' = IF resp.kind = "reject"
                      THEN broadcast("fetch_error", name, NoData, FALSE, 0, resp.error)
                      ELSE {}
         /\ UNCHANGED <<currentBlock, cache, activeStreams, requestQueue>>

\* Variant: a continuation that stamps the cache entry with the time of the
\* write instead of the time its cycle started.
FetchResumeStampsWrite(owner, resp) ==
    LET name == owner.stream IN
    IF resp.kind = "result" /\ name \in DOMAIN methods
    THEN /\ currentBlock' = IF name = DGP THEN resp.data ELSE currentBlock
         /\ cache' = [cache EXCEPT ![name] = [data |-> resp.data,
                                              timestamp |-> now,
                                              ttl |-> cache[name].ttl]]
         /\ activeStreams' =
               IF name \in DOMAIN activeStreams
               THEN [activeStreams EXCEPT ![name].requestCount = @ + 1]
               ELSE activeStreams
         /\ outbox' = broadcast("live_data", name, resp.data, FALSE, 0, "")
         /\ UNCHANGED requestQueue
    ELSE /\ outbox' = IF resp.kind = "reject"
                      THEN broadcast("fetch_error", name, NoData, FALSE, 0, resp.error)
                      ELSE {}
         /\ UNCHANGED <<currentBlock, cache, activeStreams, requestQueue>>

\* Variant: a continuation in which every stream's result moves the head.
FetchResumeMovesHead(owner, resp) ==
    LET name == owner.stream IN
    IF resp.kind = "result" /\ name \in DOMAIN methods
    THEN /\ currentBlock' = resp.data
         /\ cache' = [cache EXCEPT ![name] = [data |-> resp.data,
                                              timestamp |-> owner.now,
                                              ttl |-> cache[name].ttl]]
         /\ activeStreams' =
               IF name \in DOMAIN activeStreams
               THEN [activeStreams EXCEPT ![name].requestCount = @ + 1]
               ELSE activeStreams
         /\ outbox' = broadcast("live_data", name, resp.data, FALSE, 0, "")
         /\ UNCHANGED requestQueue
    ELSE /\ outbox' = CASE resp.kind = "result" ->
                              broadcast("fetch_error", name, NoData, FALSE, 0,
                                        "config.processor is not a function")
                        [] resp.kind = "reject" ->
                              broadcast("fetch_error", name, NoData, FALSE, 0, resp.error)
                        [] OTHER -> {}
         /\ UNCHANGED <<currentBlock, cache, activeStreams, requestQueue>>

\* fetchAndBroadcastOptimized after `await this.queueAPICall(config.method, ...)`.
FetchResume(owner, resp) ==
    LET name == owner.stream IN
    IF resp.kind = "result" /\ name \in DOMAIN methods
    THEN /\ currentBlock' = IF name = DGP THEN resp.data ELSE currentBlock
         /\ cache' = [cache EXCEPT ![name] = [data |-> resp.data,
                                              timestamp |-> owner.now,
                                              ttl |-> cache[name].ttl]]
         /\ activeStreams' =
               IF name \in DOMAIN activeStreams
               THEN [activeStreams EXCEPT ![name].requestCount = @ + 1]
               ELSE activeStreams
         /\ outbox' = broadcast("live_data", name, resp.data, FALSE, 0, "")
         /\ UNCHANGED requestQueue
    ELSE /\ outbox' = CASE resp.kind = "result" ->
                              broadcast("fetch_error", name, NoData, FALSE, 0,
                                        "config.processor is not a function")
                        [] resp.kind = "reject" ->
                              broadcast("fetch_error", name, NoData, FALSE, 0, resp.error)
                        [] OTHER -> {}
         /\ UNCHANGED <<currentBlock, cache, activeStreams, requestQueue>>

\* fetchAndBroadcastOptimized after the seeding `await this.queueAPICall(...)`.
SeedResume(owner, resp) ==
    IF resp.kind = "reject"
    THEN /\ outbox' = broadcast("fetch_error", owner.stream, NoData, FALSE, 0, resp.error)
         /\ UNCHANGED <<currentBlock, requestQueue>>
    ELSE /\ Len(requestQueue) < MaxQueue
         /\ currentBlock' = IF resp.kind = "result" THEN resp.data ELSE currentBlock
         /\ requestQueue' = Append(requestQueue,
                                   Request(Config(owner.stream).method,
                                           <<currentBlock'>>,
                                           Owner("fetch", owner.stream, owner.now)))
         /\ outbox' = {}

\* testSteemConnection after `await this.queueAPICall(...)`.
TestResume(resp) ==
    CASE resp.kind = "result" ->
             /\ currentBlock' = resp.data
             /\ autoTimers' = Append(autoTimers, now + autoFetchPeriod)
             /\ test' = [pc |-> "connected", at |-> 0]
      [] resp.kind = "empty" ->
             /\ test' = [pc |-> "unexpected", at |-> 0]
             /\ UNCHANGED <<currentBlock, autoTimers>>
      [] OTHER ->
             /\ test' = [pc |-> "timer", at |-> now + retryDelay]
             /\ UNCHANGED <<currentBlock, autoTimers>>

\* The auto-fetch callback after `await this.queueAPICall(...)`.
AutoResume(resp) ==
    currentBlock' = IF resp.kind = "result" THEN resp.data ELSE currentBlock

\* Variant: a loop that puts a failed request back at the end of the queue
\* instead of rejecting its promise.
SettleRetries(resp) ==
    LET owner == drain.req.owner IN
    /\ drain.pc = "call"
    /\ event' = Event(resp.kind, 0, owner.stream, {})
    /\ UNCHANGED <<methods, polls, lastDispatch, clientVars>>
    /\ lastRequestTime' = IF resp.kind = "reject" THEN lastRequestTime ELSE now
    /\ requestCount' = IF resp.kind = "reject" THEN requestCount ELSE requestCount + 1
    /\ drain' = [pc |-> "pause", at |-> now + pauseDelay, req |-> NoReq]
    /\ CASE resp.kind = "reject" ->
                /\ requestQueue' = Append(requestQueue, drain.req)
                /\ outbox' = {}
                /\ UNCHANGED <<currentBlock, cache, activeStreams, test, autoTimers>>
         [] owner.kind = "fetch" ->
                /\ FetchResume(owner, resp)
                /\ UNCHANGED <<test, autoTimers>>
         [] owner.kind = "seed" ->
                /\ SeedResume(owner, resp)
                /\ UNCHANGED <<cache, activeStreams, test, autoTimers>>
         [] owner.kind = "test" ->
                /\ TestResume(resp)
                /\ outbox' = {}
                /\ UNCHANGED <<cache, activeStreams, requestQueue>>
         [] OTHER ->
                /\ AutoResume(resp)
                /\ outbox' = {}
                /\ UNCHANGED <<cache, activeStreams, requestQueue, test, autoTimers>>
    /\ UNCHANGED <<now, clients, readyState, joined, timers, isProcessingQueue,
                   resetAt, dispatched>>

\* Variant: a startup test that also stores its answer in the cache entry of
\* the chain-state stream.
SettlePrimesCache(resp) ==
    LET owner == drain.req.owner IN
    /\ drain.pc = "call"
    /\ event' = Event(resp.kind, 0, owner.stream, {})
    /\ UNCHANGED <<methods, polls, lastDispatch, clientVars>>
    /\ lastRequestTime' = IF resp.kind = "reject" THEN lastRequestTime ELSE now
    /\ requestCount' = IF resp.kind = "reject" THEN requestCount ELSE requestCount + 1
    /\ drain' = [pc |-> "pause", at |-> now + pauseDelay, req |-> NoReq]
    /\ CASE owner.kind = "fetch" ->
                /\ FetchResume(owner, resp)
                /\ UNCHANGED <<test, autoTimers>>
         [] owner.kind = "seed" ->
                /\ SeedResume(owner, resp)
                /\ UNCHANGED <<cache, activeStreams, test, autoTimers>>
         [] owner.kind = "test" ->
                /\ TestResume(resp)
                /\ outbox' = {}
                /\ cache' = IF resp.kind = "result" /\ DGP \in DOMAIN cache
                            THEN [cache EXCEPT ![DGP] = [data |-> resp.data,
                                                         timestamp |-> now,
                                                         ttl |-> cache[DGP].ttl]]
                            ELSE cache
                /\ UNCHANGED <<activeStreams, requestQueue>>
         [] OTHER ->
                /\ AutoResume(resp)
                /\ outbox' = {}
                /\ UNCHANGED <<cache, activeStreams, requestQueue, test, autoTimers>>
    /\ UNCHANGED <<now, clients, readyState, joined, timers, isProcessingQueue,
                   resetAt, dispatched>>

\* makeAPICall settles: the loop runs on to its 200 ms sleep, then the
\* awaiting caller's continuation runs, all in the same macrotask.
Settle(resp) ==
    LET owner == drain.req.owner IN
    /\ drain.pc = "call"
    /\ event' = Event(resp.kind, 0, owner.stream, {})
    /\ UNCHANGED <<methods, polls, lastDispatch, clientVars>>
    /\ lastRequestTime' = IF resp.kind = "reject" THEN lastRequestTime ELSE now
    /\ requestCount' = IF resp.kind = "reject" THEN requestCount ELSE requestCount + 1
    /\ drain' = [pc |-> "pause", at |-> now + pauseDelay, req |-> NoReq]
    /\ CASE owner.kind = "fetch" ->
                /\ FetchResume(owner, resp)
                /\ UNCHANGED <<test, autoTimers>>
         [] owner.kind = "seed" ->
                /\ SeedResume(owner, resp)
                /\ UNCHANGED <<cache, activeStreams, test, autoTimers>>
         [] owner.kind = "test" ->
                /\ TestResume(resp)
                /\ outbox' = {}
                /\ UNCHANGED <<cache, activeStreams, requestQueue>>
         [] OTHER ->
                /\ AutoResume(resp)
                /\ outbox' = {}
                /\ UNCHANGED <<cache, activeStreams, requestQueue, test, autoTimers>>
    /\ UNCHANGED <<now, clients, readyState, joined, timers, isProcessingQueue,
                   resetAt, dispatched>>

\* The upstream answers (or the connection fails) before the timeout.
Respond(resp) ==
    /\ now < drain.at
    /\ Settle(resp)

\* req.on('timeout')
Timeout ==
    /\ drain.at <= now
    /\ Settle(Rejected("Timeout"))

(* ------------------------- startup and clock --------------------------- *)
\* The setTimeout of initializeConnection or of the retry fires:
\* testSteemConnection() runs up to its await.
TestStart ==
    /\ event' = Event("test", 0, "", {})
    /\ UNCHANGED <<methods, polls, lastDispatch, clientVars>>
    /\ test.pc = "timer"
    /\ test.at <= now
    /\ Len(requestQueue) < MaxQueue
    /\ requestQueue' = Append(requestQueue, Request(GetDGP, <<>>, Owner("test", "", 0)))
    /\ test' = [pc |-> "awaiting", at |-> 0]
    /\ outbox' = {}
    /\ UNCHANGED <<now, clients, readyState, joined, currentBlock, activeStreams,
                   timers, isProcessingQueue, drain, lastRequestTime, requestCount,
                   cache, autoTimers, resetAt, dispatched>>

\* The setInterval callback of startAutomaticDataFetch up to its await: it
\* asks for the chain state whether or not a client is connected.
AutoFetch(i) ==
    /\ event' = Event("auto", 0, "", {})
    /\ UNCHANGED <<methods, polls, lastDispatch, clientVars>>
    /\ i \in DOMAIN autoTimers
    /\ autoTimers[i] <= now
    /\ Len(requestQueue) < MaxQueue
    /\ requestQueue' = Append(requestQueue, Request(GetDGP, <<>>, Owner("auto", "", 0)))
    /\ autoTimers' = [autoTimers EXCEPT ![i] = @ + autoFetchPeriod]
    /\ outbox' = {}
    /\ UNCHANGED <<now, clients, readyState, joined, currentBlock, activeStreams,
                   timers, isProcessingQueue, drain, lastRequestTime, requestCount,
                   cache, test, resetAt, dispatched>>

\* process.on('SIGINT' / 'SIGTERM'): the streams are stopped and the process
\* exits; no handler runs afterwards.
Shutdown ==
    /\ event' = Event("shutdown", 0, "", {})
    /\ UNCHANGED <<methods, polls, lastDispatch, clientVars>>
    /\ test.pc # "exited"
    /\ stopAllStreams
    /\ test' = [pc |-> "exited", at |-> 0]
    /\ outbox' = {}
    /\ UNCHANGED <<now, clients, readyState, joined, currentBlock, requestQueue,
                   isProcessingQueue, drain, lastRequestTime, requestCount, cache,
                   autoTimers, resetAt, dispatched>>

\* Times at which a pending timer or timeout is due.
Deadlines ==
    {t.at : t \in timers} \cup polls \cup {resetAt}
        \cup (IF drain.pc = "idle" THEN {} ELSE {drain.at})
        \cup {autoTimers[i] : i \in DOMAIN autoTimers}
        \cup (IF test.pc = "timer" THEN {test.at} ELSE {})

\* The event loop is idle until the next timer is due.
Advance(limit) ==
    /\ event' = Event("clock", 0, "", {})
    /\ UNCHANGED <<methods, polls, lastDispatch, clientVars>>
    /\ Min(Deadlines) > now
    /\ Min(Deadlines) <= Epoch + limit
    /\ now' = Min(Deadlines)
    /\ outbox' = {}
    /\ UNCHANGED <<clients, readyState, joined, currentBlock, activeStreams, timers,
                   requestQueue, isProcessingQueue, drain, lastRequestTime,
                   requestCount, cache, test, autoTimers, resetAt, dispatched>>

(* --------------------------- SteemLiveClient --------------------------- *)
\* Callbacks an application registers.
Callbacks == 1..MaxListeners

\* connect(): this.ws = new WebSocket(this.url), with its four handlers.  The
\* WebSocket this.ws referred to before lives on with its handlers.
connect ==
    /\ created < MaxSockets
    /\ created' = created + 1
    /\ orphans' = IF ws \in Live THEN [orphans EXCEPT ![ws] = @ + 1] ELSE orphans
    /\ ws' = "CONNECTING"

\* A pending timer more, kept in the order of the due times.
Arm(timersSeq, due) ==
    LET k == Cardinality({i \in DOMAIN timersSeq : timersSeq[i] <= due})
    IN  SubSeq(timersSeq, 1, k) \o <<due>> \o SubSeq(timersSeq, k + 1, Len(timersSeq))

\* attemptReconnect(): below the ceiling a timer is armed whose delay grows
\* with the attempts made so far.
attemptReconnect ==
    reconnectTimers' =
        IF reconnectAttempts < maxReconnectAttempts
        THEN Arm(reconnectTimers, now + reconnectStep * (reconnectAttempts + 1))
        ELSE reconnectTimers

\* The application calls connect().
AppConnect ==
    /\ connect
    /\ userDisconnected' = FALSE
    /\ UNCHANGED <<isConnected, reconnectAttempts, reconnectTimers, eventListeners,
                   invoked, retries>>
    /\ UNCHANGED <<now, bridgeVars>>

\* ws.onopen, of the WebSocket in this.ws (current) or of an earlier one.
SocketOpen(current) ==
    /\ IF current
       THEN /\ ws = "CONNECTING"
            /\ ws' = "OPEN"
            /\ UNCHANGED orphans
       ELSE /\ orphans["CONNECTING"] > 0
            /\ orphans' = [orphans EXCEPT !["CONNECTING"] = @ - 1, !["OPEN"] = @ + 1]
            /\ UNCHANGED ws
    /\ isConnected' = TRUE
    /\ reconnectAttempts' = 0
    /\ retries' = 0
    /\ UNCHANGED <<created, reconnectTimers, eventListeners, invoked, userDisconnected>>
    /\ UNCHANGED <<now, bridgeVars>>

\* ws.onclose, of the WebSocket in this.ws (current) or of an earlier one in
\* readyState st: the connection failed, was closed by the bridge, or its
\* close() has completed.
SocketClose(current, st) ==
    /\ IF current
       THEN /\ ws = st
            /\ ws' = "CLOSED"
            /\ UNCHANGED orphans
       ELSE /\ orphans[st] > 0
            /\ orphans' = [orphans EXCEPT ![st] = @ - 1]
            /\ UNCHANGED ws
    /\ isConnected' = FALSE
    /\ attemptReconnect
    /\ UNCHANGED <<created, reconnectAttempts, eventListeners, invoked, retries,
                   userDisconnected>>
    /\ UNCHANGED <<now, bridgeVars>>

\* The timer of attemptReconnect fires.
ReconnectFire ==
    /\ reconnectTimers # <<>>
    /\ Head(reconnectTimers) <= now
    /\ reconnectTimers' = Tail(reconnectTimers)
    /\ reconnectAttempts' = reconnectAttempts + 1
    /\ retries' = retries + 1
    /\ connect
    /\ UNCHANGED <<isConnected, eventListeners, invoked, userDisconnected>>
    /\ UNCHANGED <<now, bridgeVars>>

\* disconnect(): this.ws.close() and this.ws = null; the closed WebSocket
\* lives on until its close event.
Disconnect ==
    /\ orphans' = IF ws \in Live THEN [orphans EXCEPT !["CLOSING"] = @ + 1] ELSE orphans
    /\ ws' = "null"
    /\ isConnected' = FALSE
    /\ userDisconnected' = TRUE
    /\ UNCHANGED <<created, reconnectAttempts, reconnectTimers, eventListeners,
                   invoked, retries>>
    /\ UNCHANGED <<now, bridgeVars>>

\* What on() and once() push: the callback itself, or the onceWrapper made for
\* it.  Callbacks are distinct functions, registered while not yet registered,
\* that return normally and leave the listeners alone.
Listener(callback, wrapped) == [callback |-> callback, once |-> wrapped]

\* indexOf: the first index holding the function, 0 when there is none.
indexOf(list, fn) ==
    IF \E i \in DOMAIN list : list[i] = fn
    THEN CHOOSE i \in DOMAIN list : list[i] = fn /\ \A j \in 1..(i - 1) : list[j] # fn
    ELSE 0

\* off(event, callback): splice the first occurrence out of the array.
off(list, fn) ==
    LET index == indexOf(list, fn)
    IN  IF index > 0
        THEN SubSeq(list, 1, index - 1) \o SubSeq(list, index + 1, Len(list))
        ELSE list

\* forEach visits the indexes below the length the array had when it began,
\* in order, reading the array as it is at each visit and passing over an
\* index the array no longer has.  A onceWrapper calls its callback and then
\* off(event, onceWrapper), during the iteration.
RECURSIVE forEach(_, _, _, _)
forEach(list, k, length, called) ==
    IF k > length THEN [list |-> list, called |-> called]
    ELSE IF k > Len(list) THEN forEach(list, k + 1, length, called)
    ELSE LET fn == list[k]
         IN  forEach(IF fn.once THEN off(list, fn) ELSE list,
                     k + 1, length, Append(called, fn.callback))

\* emit(event): what remains registered and what was invoked.
emit(list) == forEach(list, 1, Len(list), <<>>)

ListenerStep(list, called) ==
    /\ eventListeners' = list
    /\ invoked' = called
    /\ UNCHANGED <<ws, orphans, created, isConnected, reconnectAttempts,
                   reconnectTimers, retries, userDisconnected>>
    /\ UNCHANGED <<now, bridgeVars>>

\* on(event, callback)
On(callback) ==
    /\ Len(eventListeners) < MaxListeners
    /\ \A i \in DOMAIN eventListeners : eventListeners[i].callback # callback
    /\ ListenerStep(Append(eventListeners, Listener(callback, FALSE)), invoked)

\* once(event, callback)
Once(callback) ==
    /\ Len(eventListeners) < MaxListeners
    /\ \A i \in DOMAIN eventListeners : eventListeners[i].callback # callback
    /\ ListenerStep(Append(eventListeners, Listener(callback, TRUE)), invoked)

\* off(event, callback), called by the application with a function it holds.
Off(callback) ==
    /\ indexOf(eventListeners, Listener(callback, FALSE)) > 0
    /\ ListenerStep(off(eventListeners, Listener(callback, FALSE)), invoked)

\* emit(event, ...args)
Emit ==
    ListenerStep(emit(eventListeners).list, emit(eventListeners).called)

\* The browser is idle until the next reconnect timer is due.
ClientAdvance ==
    /\ reconnectTimers # <<>>
    /\ Head(reconnectTimers) > now
    /\ Head(reconnectTimers) <= Epoch + HorizonClient
    /\ now' = Head(reconnectTimers)
    /\ UNCHANGED <<clientVars, bridgeVars>>

(* --------------------------- specifications ---------------------------- *)
\* A socket event: one more of the MaxEvents that are followed.
Socket(A) == events < MaxEvents /\ events' = events + 1 /\ A
\* Any other step.
Inner(A) == A /\ UNCHANGED events

\* Two connections and the first Horizon milliseconds: no stream timer (the
\* shortest interval is 6000 ms) and no call timeout is due that early.
Next ==
    \/ \E c \in Clients : Socket(Connect(c))
    \/ \E c \in Clients : Socket(BeginClose(c))
    \/ \E c \in Clients : Socket(Error(c))
    \/ \E c \in Clients : Socket(Close(c))
    \/ \E c \in Clients, name \in StreamNames : Socket(StartStream(c, name))
    \/ \E c \in Clients, name \in StreamNames : Socket(StopStream(c, name))
    \/ \E c \in Clients, what \in Malformed : Socket(BadMessage(c, what))
    \/ \E p \in polls : Inner(Poll(p))
    \/ Inner(DelayDone)
    \/ Inner(PauseDone)
    \/ \E resp \in Responses : Inner(Respond(resp))
    \/ Inner(Advance(Horizon))

Spec == Init /\ [][Next]_vars

\* One connection and one head-dependent stream, followed until the
\* stream's timer has fired.
NextTick ==
    \/ Socket(Connect(1))
    \/ Socket(Close(1))
    \/ Socket(StartStream(1, HDR))
    \/ Socket(StopStream(1, HDR))
    \/ \E t \in timers : Inner(Tick(t))
    \/ \E p \in polls : Inner(Poll(p))
    \/ Inner(DelayDone)
    \/ Inner(PauseDone)
    \/ \E resp \in Responses : Inner(Respond(resp))
    \/ Inner(TestStart)
    \/ Inner(Advance(HorizonTick))

SpecTick == Init /\ [][NextTick]_vars

\* The upstream is down (every call is rejected) while one client keeps
\* starting and stopping one stream.
Down(A) == A /\ UNCHANGED events /\ Len(requestQueue') <= MaxQueueDown

NextDown ==
    \/ Down(Connect(1))
    \/ Down(StartStream(1, DGP))
    \/ Down(StopStream(1, DGP))
    \/ \E t \in timers : Down(Tick(t))
    \/ \E p \in polls : Down(Poll(p))
    \/ Down(PauseDone)
    \/ Down(Respond(Rejected("API Error")))
    \/ Down(TestStart)
    \/ Down(Advance(HorizonDown))

SpecDown == Init /\ [][NextDown]_vars

\* One connection that also asks for names outside the catalogue.
NextProto ==
    \/ Socket(Connect(1))
    \/ Socket(Close(1))
    \/ \E name \in {DGP, "foo"} \cup ObjectPrototype : Socket(StartStream(1, name))
    \/ \E name \in {DGP, "foo"} \cup ObjectPrototype : Socket(StopStream(1, name))
    \/ \E t \in timers : Inner(Tick(t))
    \/ \E p \in polls : Inner(Poll(p))
    \/ Inner(DelayDone)
    \/ Inner(PauseDone)
    \/ \E resp \in Responses : Inner(Respond(resp))
    \/ Inner(Advance(Horizon))

SpecProto == Init /\ [][NextProto]_vars

\* A bridge whose catalogue is the single stream A, refreshed every 4000 ms
\* and cached for 5000 ms, with an upstream that answers every call with a
\* result before the next timer is due.
ScenarioStream == "A"
ScenarioMethods == (ScenarioStream :> [method |-> "condenser_api.get_a", interval |-> 4000])
ScenarioCache == (ScenarioStream :> [data |-> NoData, timestamp |-> 0, ttl |-> 5000])

InitScenario ==
    /\ now = Epoch
    /\ clients = {}
    /\ readyState = [c \in Clients |-> "CLOSED"]
    /\ joined = [c \in Clients |-> {}]
    /\ currentBlock = 0
    /\ activeStreams = <<>>
    /\ timers = {}
    /\ requestQueue = <<>>
    /\ isProcessingQueue = FALSE
    /\ drain = NoLoop
    /\ polls = {Epoch + pollDelay}
    /\ lastRequestTime = 0
    /\ requestCount = 0
    /\ cache = ScenarioCache
    /\ methods = ScenarioMethods
    /\ test = [pc |-> "timer", at |-> Epoch + testDelay]
    /\ autoTimers = <<>>
    /\ resetAt = Epoch + resetPeriod
    /\ dispatched = 0
    /\ lastDispatch = 0
    /\ events = 0
    /\ event = Event("init", 0, "", {})
    /\ outbox = {}
    /\ ClientInit

\* No timer fires while a call is unanswered.
Prompt(A) == drain.pc # "call" /\ A /\ UNCHANGED events

NextScenario ==
    \/ \E c \in Clients : Socket(Connect(c))
    \/ \E c \in Clients : Socket(StartStream(c, ScenarioStream))
    \/ \E t \in timers : Inner(Tick(t))
    \/ \E p \in polls : Inner(Poll(p))
    \/ Inner(DelayDone)
    \/ Inner(PauseDone)
    \/ \E v \in Payloads : Inner(Respond(Result(v)))
    \/ Inner(TestStart)
    \/ Prompt(Advance(HorizonScenario))

SpecScenario == InitScenario /\ [][NextScenario]_vars

\* One connection and the chain-state stream, followed until a call has
\* timed out and the automatic fetch has fired; the upstream answers with
\* one payload, fails, or stays silent.
IdleResponses == {Result(v) : v \in Payloads} \cup {Rejected("API Error")}

NextIdle ==
    \/ Socket(Connect(1))
    \/ Socket(Close(1))
    \/ Socket(StartStream(1, DGP))
    \/ \E t \in timers : Inner(Tick(t))
    \/ \E p \in polls : Inner(Poll(p))
    \/ Inner(DelayDone)
    \/ Inner(PauseDone)
    \/ \E resp \in IdleResponses : Inner(Respond(resp))
    \/ Inner(Timeout)
    \/ Inner(TestStart)
    \/ \E i \in DOMAIN autoTimers : Inner(AutoFetch(i))
    \/ Inner(Advance(HorizonIdle))

SpecIdle == Init /\ [][NextIdle]_vars

\* One connection that starts and stops the chain-state stream, with timers
\* that fire when they are due and an upstream that answers every call.
NextLive ==
    \/ Socket(Connect(1))
    \/ Socket(StartStream(1, DGP))
    \/ Socket(StopStream(1, DGP))
    \/ \E p \in polls : Inner(Poll(p))
    \/ Inner(DelayDone)
    \/ Inner(PauseDone)
    \/ \E resp \in IdleResponses : Inner(Respond(resp))
    \/ Inner(TestStart)
    \/ Inner(Advance(HorizonLive))

SpecLive ==
    /\ Init
    /\ [][NextLive]_vars
    /\ WF_vars(\E p \in polls : Inner(Poll(p)))
    /\ WF_vars(Inner(DelayDone))
    /\ WF_vars(Inner(PauseDone))
    /\ WF_vars(\E resp \in IdleResponses : Inner(Respond(resp)))
    /\ WF_vars(Inner(TestStart))
    /\ WF_vars(Inner(Advance(HorizonLive)))

\* One connection, the chain-state stream and a head-dependent stream, and
\* an upstream that answers every call with a result before the next timer
\* is due, followed until the automatic fetch has been answered.
NextHead ==
    \/ Socket(Connect(1))
    \/ \E name \in {DGP, HDR} : Socket(StartStream(1, name))
    \/ \E t \in timers : Inner(Tick(t))
    \/ \E p \in polls : Inner(Poll(p))
    \/ Inner(DelayDone)
    \/ Inner(PauseDone)
    \/ \E v \in Payloads : Inner(Respond(Result(v)))
    \/ Inner(TestStart)
    \/ \E i \in DOMAIN autoTimers : Inner(AutoFetch(i))
    \/ Prompt(Advance(HorizonHead))

SpecHead == Init /\ [][NextHead]_vars

\* One connection and two streams with an upstream so slow that every call
\* runs into its timeout, which is longer than the streams' intervals.
NextSlow ==
    \/ Socket(Connect(1))
    \/ \E name \in {DGP, HDR} : Socket(StartStream(1, name))
    \/ \E t \in timers : Inner(Tick(t))
    \/ \E p \in polls : Inner(Poll(p))
    \/ Inner(PauseDone)
    \/ Inner(Timeout)
    \/ Inner(TestStart)
    \/ Inner(Advance(HorizonSlow))

SpecSlow == Init /\ [][NextSlow]_vars

\* Two connections that start and stop two streams, close, fail, and a
\* process that may be shut down, followed until a stream timer has fired;
\* the upstream does not answer within that time.
Alive(A) == test.pc # "exited" /\ A

NextTimers ==
    \/ \E c \in Clients : Socket(Alive(Connect(c)))
    \/ \E c \in Clients : Socket(Alive(Error(c)))
    \/ \E c \in Clients : Socket(Alive(Close(c)))
    \/ \E c \in Clients, name \in {DGP, HDR} : Socket(Alive(StartStream(c, name)))
    \/ \E c \in Clients, name \in {DGP, HDR} : Socket(Alive(StopStream(c, name)))
    \/ \E t \in timers : Inner(Alive(Tick(t)))
    \/ \E p \in polls : Inner(Alive(Poll(p)))
    \/ Inner(Alive(TestStart))
    \/ Inner(Shutdown)
    \/ Inner(Alive(Advance(HorizonTimers)))

SpecTimers == Init /\ [][NextTimers]_vars

\* The client library alone: an application that connects and disconnects,
\* sockets that open and close, and reconnect timers.
NextClient ==
    \/ AppConnect
    \/ \E current \in BOOLEAN : SocketOpen(current)
    \/ \E current \in BOOLEAN, st \in Live : SocketClose(current, st)
    \/ ReconnectFire
    \/ Disconnect
    \/ ClientAdvance

SpecClient == Init /\ [][NextClient]_vars

\* The event system of the client alone.
NextEmit ==
    \/ \E callback \in Callbacks : On(callback)
    \/ \E callback \in Callbacks : Once(callback)
    \/ \E callback \in Callbacks : Off(callback)
    \/ Emit

SpecEmit == Init /\ [][NextEmit]_vars

(* ------------------------------ claims --------------------------------- *)
\* Connections that asked for stream s and have neither left it nor gone.
Subscribers(s) == {c \in Clients : s \in joined[c]}

\* Requests of fetchAndBroadcastOptimized for stream s that are queued or
\* dispatched and not yet settled.
Pending(s) ==
    LET mine(r) == r.owner.kind \in {"fetch", "seed"} /\ r.owner.stream = s
    IN  Cardinality({i \in DOMAIN requestQueue : mine(requestQueue[i])})
            + (IF drain.pc \in {"delay", "call"} /\ mine(drain.req) THEN 1 ELSE 0)

\* C1: at every instant at most one fetch of fetchAndBroadcastOptimized is
\* pending (queued or dispatched, not yet settled) for each stream.
C1_AtMostOneInFlight == \A s \in Catalogue : Pending(s) <= 1

\* C2: the upstream calls dispatched within any 60-second window number at
\* most maxRequestsPerMinute; in particular all the calls of the first 60
\* seconds after the start.
C2_WindowCeiling == (now - Epoch < resetPeriod) => dispatched <= maxRequestsPerMinute

\* C3: a timer tick, or the fetch of an activation, that runs while the
\* stream's cache holds a value younger than its ttl pushes no request and
\* sends the cached value, marked cached, to every open connection.
C3_FreshCacheServed ==
    [][\A s \in Catalogue :
          (/\ event'.stream = s
           /\ \/ event'.op = "tick"
              \/ event'.op = "start_stream" /\ s \notin DOMAIN activeStreams
           /\ cache[s].data # NoData
           /\ now - cache[s].timestamp < cache[s].ttl)
          => /\ requestQueue' = requestQueue
             /\ \A c \in clients :
                   readyState[c] = "OPEN"
                   => Msg(c, "live_data", s, cache[s].data, TRUE,
                          now - cache[s].timestamp, "") \in outbox'
             /\ \A m \in outbox' :
                   m.type = "live_data" => m.cached /\ m.data = cache[s].data]_vars

\* An activation has just been served from the cache.
C3_Witness ==
    /\ event.op = "start_stream"
    /\ event.stream \in Catalogue
    /\ \E m \in outbox : /\ m.type = "live_data"
                         /\ m.stream = event.stream
                         /\ m.to = event.client
                         /\ m.cached

\* C4: start_stream for a catalogue stream that is not active creates the
\* stream's entry with exactly one recurring timer, and in the same step
\* either serves the cached value or pushes the stream's request.
C4_ActivationStartsCycle ==
    [][\A s \in Catalogue :
          (/\ event'.op = "start_stream"
           /\ event'.stream = s
           /\ s \notin DOMAIN activeStreams)
          => /\ s \in DOMAIN activeStreams'
             /\ Cardinality({t \in timers' : t.stream = s}) = 1
             /\ \A t \in timers' :
                   t.stream = s => /\ t.id = activeStreams'[s].intervalId
                                   /\ t.at = now + apiMethods[s].interval
             /\ \/ \E m \in outbox' : /\ m.type = "live_data"
                                      /\ m.stream = s
                                      /\ m.cached
                \/ /\ Len(requestQueue') = Len(requestQueue) + 1
                   /\ requestQueue'[Len(requestQueue')].owner.stream = s
                   /\ requestQueue'[Len(requestQueue')].owner.now = now]_vars

\* The first message of the first connection has activated a stream: its
\* timer is armed and its request is queued.
C4_Witness ==
    /\ events = 2
    /\ event.op = "start_stream"
    /\ event.stream \in Catalogue
    /\ event.stream \in DOMAIN activeStreams
    /\ \E t \in timers : t.stream = event.stream /\ t.at > now
    /\ requestQueue # <<>>
    /\ requestQueue[Len(requestQueue)].owner.stream = event.stream

\* C5: start_stream for a stream that is already active creates no timer and
\* pushes no request, and is acknowledged with stream_started carrying the
\* stream's interval.
C5_ActiveStartOnlyAcks ==
    [][\A s \in Catalogue :
          (/\ event'.op = "start_stream"
           /\ event'.stream = s
           /\ s \in DOMAIN activeStreams)
          => /\ UNCHANGED <<timers, activeStreams, requestQueue>>
             /\ outbox' = {Msg(event'.client, "stream_started", s, NoData, FALSE,
                               apiMethods[s].interval, "")}]_vars

\* A stream activated earlier has just been asked for again.
C5_Witness ==
    /\ event.op = "start_stream"
    /\ event.stream \in DOMAIN activeStreams
    /\ activeStreams[event.stream].startTime < now
    /\ outbox = {Msg(event.client, "stream_started", event.stream, NoData, FALSE,
                     apiMethods[event.stream].interval, "")}

\* C6: once the last subscriber of a stream has left it (stop_stream or
\* disconnect) and the stream is stopped, no live_data for that stream is
\* sent until it is started again, whether or not a fetch was in flight.
C6_SilentAfterLastLeave ==
    \A s \in Catalogue :
        (Subscribers(s) = {} /\ s \notin DOMAIN activeStreams)
        => \A m \in outbox : ~(m.type = "live_data" /\ m.stream = s)

\* C7: a stop_stream from one of two or more subscribers of a stream removes
\* that connection only: the stream stays active for the others.
C7_StopLeavesOthers ==
    [][\A s \in Catalogue :
          (/\ event'.op = "stop_stream"
           /\ event'.stream = s
           /\ s \in DOMAIN activeStreams
           /\ event'.client \in Subscribers(s)
           /\ Cardinality(Subscribers(s)) >= 2)
          => /\ s \in DOMAIN activeStreams'
             /\ \E t \in timers' : t.stream = s
             /\ \A d \in Subscribers(s) \ {event'.client} : s \in joined'[d]]_vars

\* C8: when one of two subscribers of an active stream disconnects (its
\* socket closes or fails), the stream's entry and timer stay as they are
\* and the other stays subscribed; and every live_data of a stream goes to
\* each of its open subscribers.
C8_OtherSubscriberKeepsStream ==
    [][/\ \A s \in Catalogue :
             (/\ event'.op \in {"close", "error"}
              /\ s \in event'.had
              /\ s \in DOMAIN activeStreams
              /\ \E d \in Clients \ {event'.client} : s \in joined[d])
             => /\ s \in DOMAIN activeStreams'
                /\ activeStreams'[s] = activeStreams[s]
                /\ {t \in timers' : t.stream = s} = {t \in timers : t.stream = s}
                /\ \A d \in Clients \ {event'.client} : joined'[d] = joined[d]
       /\ \A m \in outbox' :
             m.type = "live_data"
             => \A d \in Clients :
                   (m.stream \in joined'[d] /\ readyState'[d] = "OPEN")
                   => [m EXCEPT !.to = d] \in outbox']_vars

\* A subscriber of an active stream has just disconnected, and another open
\* connection is subscribed to the stream.
C8_Witness ==
    /\ event.op = "close"
    /\ \E s \in event.had \cap Catalogue :
          /\ s \in DOMAIN activeStreams
          /\ \E t \in timers : t.stream = s
          /\ \E d \in clients : s \in joined[d] /\ readyState[d] = "OPEN"

\* C9: when a connection closes, every stream it was the only subscriber of
\* is deactivated, also while connections that never joined stay open.
C9_CloseStopsOrphans ==
    [][\A s \in Catalogue :
          (/\ event'.op = "close"
           /\ s \in event'.had
           /\ Subscribers(s) = {event'.client})
          => s \notin DOMAIN activeStreams']_vars

\* C10: start_stream with a name outside the catalogue sends one error to
\* the requester and changes nothing else.
C10_UnknownNameOnlyError ==
    [][(event'.op = "start_stream" /\ event'.stream \notin Catalogue)
          => /\ outbox' = {Msg(event'.client, "error", "", NoData, FALSE, 0,
                               "Unknown stream")}
             /\ UNCHANGED <<activeStreams, timers, requestQueue, cache,
                            currentBlock, clients>>]_vars

\* C11: stop_stream for a stream that is not active is a no-op: nothing is
\* sent, and activeStreams, timers, cache, request queue and client set stay
\* as they are.
C11_InactiveStopNoOp ==
    [][(event'.op = "stop_stream" /\ event'.stream \notin DOMAIN activeStreams)
          => /\ outbox' = {}
             /\ UNCHANGED <<activeStreams, timers, cache, requestQueue, clients,
                            drain, currentBlock>>]_vars

\* A stop_stream for a catalogue stream that is not active has been handled
\* while another stream is active.
C11_Witness ==
    /\ event.op = "stop_stream"
    /\ event.stream \in Catalogue
    /\ event.stream \notin DOMAIN activeStreams
    /\ outbox = {}
    /\ DOMAIN activeStreams # {}

\* The call that has just settled belonged to a fetch cycle of stream s.
CycleOf(s) == drain.req.owner.kind \in {"fetch", "seed"} /\ drain.req.owner.stream = s

\* C12: a fetch cycle that fails (transport failure, timeout or upstream RPC
\* error) sends each open connection one message of type error that carries
\* the stream's name and the error text, and no message of another type.
C12_FailureSendsError ==
    [][\A s \in Catalogue :
          (event'.op = "reject" /\ CycleOf(s))
          => /\ \A c \in clients :
                   readyState[c] = "OPEN"
                   => \E m \in outbox' : /\ m.to = c
                                         /\ m.type = "error"
                                         /\ m.stream = s
                                         /\ m.error # ""
             /\ \A m \in outbox' : m.type = "error"]_vars

\* C13: a failed fetch leaves the stream's entry and timer as they are, and
\* a timer tick that finds the stream's cache stale pushes a new request for
\* the stream.
C13_FailureKeepsStream ==
    [][/\ event'.op = "reject" => UNCHANGED <<activeStreams, timers>>
       /\ \A s \in Catalogue :
             (/\ event'.op = "tick"
              /\ event'.stream = s
              /\ ~(cache[s].data # NoData /\ now - cache[s].timestamp < cache[s].ttl))
             => /\ s \in DOMAIN activeStreams'
                /\ Len(requestQueue') = Len(requestQueue) + 1
                /\ requestQueue'[Len(requestQueue')].owner.stream = s
                /\ requestQueue'[Len(requestQueue')].owner.now = now]_vars

\* A tick has pushed a new request for a stream all of whose earlier calls
\* were rejected (no call has succeeded yet, none is pending).
C13_Witness ==
    /\ event.op = "tick"
    /\ event.stream \in DOMAIN activeStreams
    /\ requestCount = 0
    /\ dispatched >= 1
    /\ Pending(event.stream) = 1
    /\ requestQueue # <<>>
    /\ requestQueue[Len(requestQueue)].owner = Owner("seed", event.stream, now)

\* C14: every fetch cycle of an active stream with a connected subscriber
\* ends with a message for the stream: live_data or an error notification,
\* whatever the upstream answered.
C14_CycleAlwaysReports ==
    [][\A s \in Catalogue :
          (/\ event'.op \in {"result", "empty", "reject"}
           /\ drain.req.owner.kind = "fetch"
           /\ drain.req.owner.stream = s
           /\ s \in DOMAIN activeStreams
           /\ \E c \in clients : readyState[c] = "OPEN" /\ s \in joined[c])
          => \E m \in outbox' : /\ m.stream = s
                                /\ m.type \in {"live_data", "error", "fetch_error"}]_vars

\* Message types that are sent with broadcast().
Broadcasts == {"live_data", "fetch_error"}

\* The step calls broadcast(): a fetch of a catalogue stream has delivered a
\* result, or a call of a fetch cycle was rejected.
BroadcastStep ==
    \/ /\ event'.op = "result"
       /\ drain.req.owner.kind = "fetch"
       /\ drain.req.owner.stream \in Catalogue
    \/ /\ event'.op = "reject"
       /\ drain.req.owner.kind \in {"fetch", "seed"}

\* C15 as stated: a broadcast delivers to every open connection, and removes
\* from the client set every connection that is closing or closed.
C15_BroadcastDropsClosed ==
    [][BroadcastStep
          => /\ \A c \in clients :
                   readyState[c] = "OPEN"
                   => \E m \in outbox' : m.to = c /\ m.type \in Broadcasts
             /\ \A c \in clients : readyState[c] # "OPEN" => c \notin clients']_vars

\* C15, amended: a broadcast delivers to every connection of the client set
\* whose socket is open and to no other; a connection that is not open is
\* passed over without stopping the delivery, and the broadcast removes no
\* connection from the set.
C15_BroadcastSkipsClosed ==
    [][BroadcastStep
          => /\ \A c \in clients :
                   readyState[c] = "OPEN"
                   => \E m \in outbox' : m.to = c /\ m.type \in Broadcasts
             /\ \A m \in outbox' : m.to \in clients /\ readyState[m.to] = "OPEN"
             /\ \A m1, m2 \in outbox' : [m1 EXCEPT !.to = m2.to] = m2
             /\ clients' = clients]_vars

\* A broadcast has reached an open connection that was added after one
\* that is closing and still in the client set.
C15_Witness ==
    \E m \in outbox :
        /\ m.type \in Broadcasts
        /\ \E c \in clients : readyState[c] = "CLOSING" /\ c < m.to

\* C16: a malformed inbound message (text that is no JSON, or an unknown
\* type) is answered with exactly one error, sent to the connection it came
\* from, and changes nothing of the client set, the streams, their timers,
\* the cache or the request queue.
C16_MalformedOnlyError ==
    [][event'.op \in Malformed
          => /\ Cardinality(outbox') = 1
             /\ \A m \in outbox' : m.type = "error" /\ m.to = event'.client
             /\ UNCHANGED <<clients, readyState, joined, activeStreams, timers,
                            cache, requestQueue, drain, currentBlock>>]_vars

\* A malformed message has been answered while another connection is
\* subscribed to an active stream.
C16_Witness ==
    /\ event.op \in Malformed
    /\ \E m \in outbox : m.to = event.client /\ m.type = "error"
    /\ \E d \in clients \ {event.client} :
          /\ readyState[d] = "OPEN"
          /\ \E s \in joined[d] : s \in DOMAIN activeStreams

\* The step deactivates at least one stream (stopStream or stopAllStreams).
Deactivation ==
    /\ DOMAIN activeStreams' \subseteq DOMAIN activeStreams
    /\ DOMAIN activeStreams' # DOMAIN activeStreams

\* C17: deactivating a stream leaves the cache as it is, and a start_stream
\* that activates a stream whose cache entry is still younger than its ttl
\* sends the requester the cached value in the same step and pushes no
\* request.
C17_CacheOutlivesStream ==
    [][/\ Deactivation => cache' = cache
       /\ \A s \in Catalogue :
             (/\ event'.op = "start_stream"
              /\ event'.stream = s
              /\ s \notin DOMAIN activeStreams
              /\ cache[s].data # NoData
              /\ now - cache[s].timestamp < cache[s].ttl)
             => /\ requestQueue' = requestQueue
                /\ Msg(event'.client, "live_data", s, cache[s].data, TRUE,
                       now - cache[s].timestamp, "") \in outbox'
                /\ cache' = cache]_vars

\* A stream that was fetched, then deactivated, has been activated again
\* later and served from its cache.
C17_Witness ==
    /\ event.op = "start_stream"
    /\ event.stream \in DOMAIN activeStreams
    /\ activeStreams[event.stream].startTime = now
    /\ cache[event.stream].timestamp < now
    /\ requestQueue = <<>>
    /\ Msg(event.client, "live_data", event.stream, cache[event.stream].data, TRUE,
           now - cache[event.stream].timestamp, "") \in outbox

\* C18: stopping a stream aborts no request of it: the queue and the call
\* under way are left alone, and when a fetch delivers a result it is
\* written to the stream's cache entry (stamped with the start of its
\* cycle) whether or not the stream is still active.
C18_StoppedFetchStillCached ==
    [][/\ Deactivation => requestQueue' = requestQueue /\ drain' = drain
       /\ \A s \in Catalogue :
             (/\ event'.op = "result"
              /\ drain.req.owner.kind = "fetch"
              /\ drain.req.owner.stream = s)
             => /\ cache'[s].data \in Payloads
                /\ cache'[s].timestamp = drain.req.owner.now
                /\ dispatched >= 1
                /\ \A m \in outbox' : m.data = cache'[s].data]_vars

\* The result of a fetch has been cached for a stream that had been
\* stopped in the meantime.
C18_Witness ==
    /\ event.op = "result"
    /\ event.stream \in Catalogue
    /\ event.stream \notin DOMAIN activeStreams
    /\ cache[event.stream].data # NoData
    /\ lastRequestTime = now
    /\ \E m \in outbox : /\ m.type = "live_data"
                         /\ m.stream = event.stream
                         /\ ~m.cached
                         /\ m.data = cache[event.stream].data

\* C19: stream A (interval 4000 ms, ttl 5000 ms) joined at t = 0 with an
\* empty cache.  The activation pushes exactly one request; the tick at
\* t = 4000 pushes none and serves the cached value, 4000 ms old; the tick
\* at t = 8000 pushes exactly one request, and the result of that request
\* leaves the cache stamped 8000.  No earlier request of A is pending at
\* either tick.
C19_IntervalBelowTtl ==
    [][LET s == ScenarioStream
           T == methods[s].interval
           one(t) == requestQueue \o
                        <<Request(methods[s].method, <<>>, Owner("fetch", s, t))>>
           joinedAtZero == s \in DOMAIN activeStreams /\ activeStreams[s].startTime = Epoch
       IN  /\ (/\ event'.op = "start_stream"
               /\ event'.stream = s
               /\ s \notin DOMAIN activeStreams
               /\ now = Epoch)
              => requestQueue' = one(Epoch)
           /\ (event'.op = "tick" /\ joinedAtZero /\ now = Epoch + T)
              => /\ Pending(s) = 0
                 /\ requestQueue' = requestQueue
                 /\ \A c \in clients :
                       readyState[c] = "OPEN"
                       => Msg(c, "live_data", s, cache[s].data, TRUE, T, "") \in outbox'
                 /\ cache[s].data \in Payloads
           /\ (event'.op = "tick" /\ joinedAtZero /\ now = Epoch + 2 * T)
              => /\ Pending(s) = 0
                 /\ requestQueue' = one(Epoch + 2 * T)
                 /\ outbox' = {}
           /\ (event'.op = "result" /\ drain.req.owner = Owner("fetch", s, Epoch + 2 * T))
              => cache'[s].timestamp = Epoch + 2 * T]_vars

\* The request pushed by the tick at t = 8000 has been answered.
C19_Witness ==
    /\ event.op = "result"
    /\ event.stream = ScenarioStream
    /\ ScenarioStream \in DOMAIN activeStreams
    /\ activeStreams[ScenarioStream].startTime = Epoch
    /\ activeStreams[ScenarioStream].requestCount = 2
    /\ cache[ScenarioStream].timestamp = Epoch + 2 * methods[ScenarioStream].interval

\* C20: a live_data sent with cached = true carries the value the stream's
\* last successful fetch wrote to the cache, which is the value that fetch
\* broadcast with cached = false: every live_data carries the content of
\* the stream's cache entry, a cache hit leaves the cache as it is, and the
\* cache changes only when a fetch delivers a result, to the value
\* broadcast in that step.
C20_CachedValueIsFetchedValue ==
    [][/\ \A m \in outbox' :
             m.type = "live_data"
             => /\ m.data = cache'[m.stream].data
                /\ m.cached => cache' = cache
       /\ \A s \in DOMAIN cache :
             cache'[s] # cache[s]
             => /\ event'.op = "result"
                /\ drain.req.owner.kind = "fetch"
                /\ drain.req.owner.stream = s
                /\ \A t \in DOMAIN cache \ {s} : cache'[t] = cache[t]
                /\ \A c \in clients :
                      readyState[c] = "OPEN"
                      => Msg(c, "live_data", s, cache'[s].data, FALSE, 0, "")
                            \in outbox']_vars

\* A cached value has been served after the head moved past it.
C20_Witness ==
    \E m \in outbox :
        /\ m.type = "live_data"
        /\ m.cached
        /\ m.data \in Payloads
        /\ m.data = cache[m.stream].data
        /\ currentBlock # m.data


\* C21: whenever no client is connected (this.clients is empty) no stream is
\* active and no stream timer is running, whether the last client was removed
\* by the close handler or by the error handler.
C21_NoClientsNoStreams ==
    clients = {} => (DOMAIN activeStreams = {} /\ timers = {})


\* C22: while no client is connected and nothing is left over from before
\* (the queue is empty and no call is under way), the bridge enqueues no
\* upstream request.  Stated for the time after the startup test has
\* succeeded, once a client has come and gone.
C22_IdleEnqueuesNothing ==
    [][(/\ clients = {}
        /\ events > 0
        /\ test.pc = "connected"
        /\ requestQueue = <<>>
        /\ drain.pc \in {"idle", "pause"})
       => requestQueue' = <<>>]_vars


\* s is the beginning of t.
IsPrefix(s, t) == Len(s) <= Len(t) /\ SubSeq(t, 1, Len(s)) = s

\* C23: requests are dispatched in the order queueAPICall enqueued them.  The
\* loop always takes the head of the queue and leaves the rest in place, a
\* rate-limiting sleep ends with the dispatch of the very request that was
\* taken, every other step only appends to the tail, and a request is
\* dispatched only while no other is under way.
C23_DispatchedInOrder ==
    [][/\ (drain.pc \in {"idle", "pause"} /\ drain'.pc \in {"delay", "call"})
            => /\ requestQueue # <<>>
               /\ drain'.req = Head(requestQueue)
               /\ requestQueue' = Tail(requestQueue)
       /\ ~(drain.pc \in {"idle", "pause"} /\ drain'.pc \in {"delay", "call"})
            => IsPrefix(requestQueue, requestQueue')
       /\ (drain.pc = "delay" /\ drain' # drain)
            => drain'.pc = "call" /\ drain'.req = drain.req
       /\ dispatched' # dispatched
            => drain.pc # "call" /\ drain'.pc = "call" /\ dispatched' = dispatched + 1
      ]_vars

\* The head was held back by the rate limit and has just been dispatched
\* while a request for another stream, enqueued after it, still waits.
C23_Witness ==
    /\ event.op = "delay_done"
    /\ drain.pc = "call"
    /\ requestQueue # <<>>
    /\ drain.req.owner.stream # requestQueue[1].owner.stream


\* The loops of processRequestQueue that are running or whose timer is armed.
Loops == Cardinality(polls) + (IF drain.pc = "idle" THEN 0 ELSE 1)

\* C24: at most one upstream call is outstanding and at most one drain loop
\* runs.  After every step exactly one of "a processRequestQueue timer is
\* armed" and "the loop is running" holds, isProcessingQueue is set exactly
\* while the loop runs, a step taken while a call is outstanding starts no
\* other call, and a timer callback or an incoming request that arrives
\* while the loop runs leaves the loop where it is.
C24_SingleDrainLoop ==
    [][/\ Loops' = 1
       /\ isProcessingQueue' = (drain'.pc # "idle")
       /\ (drain.pc = "call" /\ drain'.pc = "call")
            => drain' = drain /\ dispatched' = dispatched
       /\ (drain.pc # "idle"
              /\ event'.op \in {"poll", "tick", "auto", "test", "start_stream"})
            => drain' = drain /\ dispatched' = dispatched
      ]_vars

\* A timer callback has enqueued a request while a call is outstanding.
C24_Witness ==
    /\ drain.pc = "call"
    /\ isProcessingQueue
    /\ event.op \in {"tick", "auto", "test"}
    /\ requestQueue # <<>>


\* C25: any two consecutive dispatches are at least requestDelay apart,
\* whether the earlier call succeeded or failed.
C25_DispatchesSpaced ==
    [][(dispatched' = dispatched + 1 /\ dispatched >= 1)
          => now - lastDispatch >= requestDelay]_vars


\* What a call can settle with, as the handler of the settling step records it.
Outcomes == {"result", "empty", "reject"}

\* C26: a request leaves the queue only by being taken by the loop, is
\* dispatched once, and its promise is settled once: the step that ends the
\* call hands the outcome to the awaiting caller (a failure reaches a stream
\* cycle as a fetch_error broadcast and the startup test as its retry timer),
\* drops the request, and puts it nowhere back in the queue; no promise is
\* settled except by the end of its call.
C26_TakenOnceSettledOnce ==
    [][/\ ~IsPrefix(requestQueue, requestQueue')
            => /\ drain.pc \in {"idle", "pause"}
               /\ requestQueue' = Tail(requestQueue)
               /\ drain'.req = Head(requestQueue)
               /\ dispatched' = dispatched + Calls(drain')
       /\ (drain.pc = "delay" /\ drain' # drain)
            => /\ drain' = [pc |-> "call", at |-> now + callTimeout, req |-> drain.req]
               /\ dispatched' = dispatched + 1
       /\ (drain.pc = "call" /\ drain' # drain)
            => /\ drain'.pc = "pause"
               /\ drain'.req = NoReq
               /\ event'.op \in Outcomes
               /\ dispatched' = dispatched
               /\ \A i \in DOMAIN requestQueue' :
                      i > Len(requestQueue) => requestQueue'[i] # drain.req
               /\ (event'.op = "reject" /\ drain.req.owner.kind \in {"fetch", "seed"})
                      => outbox' = broadcast("fetch_error", drain.req.owner.stream,
                                             NoData, FALSE, 0,
                                             IF now < drain.at THEN "API Error"
                                             ELSE "Timeout")
               /\ (event'.op = "reject" /\ drain.req.owner.kind = "test")
                      => test' = [pc |-> "timer", at |-> now + retryDelay]
       /\ event'.op \in Outcomes => drain.pc = "call"
      ]_vars

\* A call has run into its timeout and its request has been dropped while
\* other requests wait.
C26_Witness ==
    /\ event.op = "reject"
    /\ now - lastDispatch = callTimeout
    /\ drain.pc = "pause"
    /\ requestQueue # <<>>


\* Requests queueAPICall has accepted so far, and those whose promise has
\* been settled.
Enqueued == dispatched + Len(requestQueue) + (IF drain.pc = "delay" THEN 1 ELSE 0)
Settled == dispatched - Calls(drain)

\* The followed time is within one poll period of its end.
TimeUp == now + pollDelay > Epoch + HorizonLive

\* C27: when every upstream call terminates and timers fire, every enqueued
\* request is eventually dispatched and its promise settled: once n requests
\* have been enqueued, n promises are eventually settled (the queue is
\* first-in first-out, so these are the first n requests), unless the
\* followed time runs out first.
C27_EveryRequestSettled ==
    \A n \in 1..MaxEvents : (Enqueued >= n) ~> (Settled >= n \/ TimeUp)

\* The startup test, enqueued while the loop was idle and no request had
\* ever been dispatched, has been dispatched and settled.
C27_Witness ==
    /\ event.op = "result"
    /\ test.pc = "connected"
    /\ dispatched = 1
    /\ ~TimeUp


\* C28: within one stream, fetch results are written to the cache and
\* broadcast in the order in which their fetches were dispatched.  A cache
\* entry is written, or a fetched value broadcast, only by the step that ends
\* the outstanding call, which is the stream's fetch dispatched last; that
\* step ends the call, so the next result applied belongs to a later dispatch.
C28_AppliedInDispatchOrder ==
    [][\A s \in DOMAIN cache :
          (\/ cache'[s] # cache[s]
           \/ \E m \in outbox' : m.type = "live_data" /\ ~m.cached /\ m.stream = s)
          => /\ drain.pc = "call"
             /\ drain.at = lastDispatch + callTimeout
             /\ drain.req.owner.kind = "fetch"
             /\ drain.req.owner.stream = s
             /\ event'.op = "result"
             /\ drain'.pc = "pause"
             /\ dispatched' = dispatched
             /\ \A m \in outbox' : m.data = cache'[s].data /\ m.stream = s
      ]_vars

\* Within one activation of the chain-state stream a second fetch has been
\* answered and applied.
C28_Witness ==
    /\ event.op = "result"
    /\ event.stream = DGP
    /\ DGP \in DOMAIN activeStreams
    /\ activeStreams[DGP].requestCount >= 2
    /\ outbox # {}


\* C29: every cache write sets the entry's timestamp to the time at which
\* the write happens, so that right after the write the entry's age is 0.
C29_WriteStampsNow ==
    [][\A s \in DOMAIN cache :
          cache'[s] # cache[s] => cache'[s].timestamp = now']_vars


C31_NeverFetchesHeightZero ==
    \A i \in DOMAIN requestQueue :
        (requestQueue[i].owner.kind = "fetch"
            /\ requestQueue[i].owner.stream \in {HDR, BLK})
        => requestQueue[i].params # <<0>>


\* C32: a live_data or stream error message for stream S goes only to
\* connections that have joined S and have not left it.
C32_OnlySubscribersReceive ==
    \A m \in outbox :
        m.type \in Broadcasts => m.stream \in joined[m.to]


\* C33: the timestamp of a cache entry never decreases: every cache write
\* stores a timestamp greater than or equal to the one it replaces.
C33_TimestampsNeverDecrease ==
    [][\A s \in DOMAIN cache :
          cache'[s].timestamp >= cache[s].timestamp]_vars


\* One pending request per catalogue stream, the startup test and the
\* background fetch.
QueueCeiling == Cardinality(Catalogue) + 2

\* C34: the request queue stays bounded: its length never exceeds one
\* request per catalogue stream plus the startup test and the background
\* fetch, however slow the upstream is.
C34_QueueBounded == Len(requestQueue) <= QueueCeiling


\* The stream timers that are armed for stream s.
TimersOf(s) == {t \in timers : t.stream = s}

\* C35: every stream has at most one running interval timer, every active
\* stream's entry holds the handle of a running timer of that stream, and
\* every running timer belongs to the entry of its stream: no timer is
\* leaked and no entry outlives its timer.
C35_TimerIffEntry ==
    /\ \A s \in DOMAIN activeStreams :
          /\ Cardinality(TimersOf(s)) = 1
          /\ \A t \in TimersOf(s) : t.id = activeStreams[s].intervalId
    /\ \A t \in timers : t.stream \in DOMAIN activeStreams

\* One stream has just been stopped while the other, whose timer has fired
\* at least once, stays active with its timer.
C35_Witness ==
    /\ event.op = "stop_stream"
    /\ DGP \in event.had
    /\ DOMAIN activeStreams = {HDR}
    /\ \E t \in timers : t.at - activeStreams[HDR].startTime > Config(HDR).interval


\* C36: reconnectAttempts never exceeds maxReconnectAttempts, and no more
\* than maxReconnectAttempts reconnection attempts are made without a
\* successful open in between.
C36_ReconnectBounded ==
    /\ reconnectAttempts <= maxReconnectAttempts
    /\ retries <= maxReconnectAttempts


\* C37: once the application has called disconnect(), and until it calls
\* connect() again, no close event arms a reconnect timer and the client
\* constructs no WebSocket.
C37_StaysDisconnected ==
    [][(userDisconnected /\ userDisconnected') =>
            /\ Len(reconnectTimers') <= Len(reconnectTimers)
            /\ created' = created]_vars


\* C38: emit invokes every listener that is registered when it is called,
\* once each and in registration order, and afterwards exactly the listeners
\* registered with on() remain.
C38_EmitInvokesAll ==
    [][Emit =>
        /\ invoked' = [i \in DOMAIN eventListeners |-> eventListeners[i].callback]
        /\ eventListeners' = SelectSeq(eventListeners, LAMBDA fn : ~fn.once)]_vars


\* C39: until a connection test has succeeded and started the automatic
\* fetch, a test is awaiting its answer or a timer is pending that will start
\* one; and the automatic fetch timer is created at most once.
C39_TestKeptAlive ==
    /\ test.pc \in {"timer", "awaiting", "connected"}
    /\ test.pc = "connected" <=> Len(autoTimers) = 1
    /\ Len(autoTimers) <= 1

====
